---- MODULE Spec2Model ----
(***************************************************************************)
(* Savoria backend (src/backend/main.py): a proxy over the NeoDB shelf     *)
(* API.  One HTTP request is modelled from its arrival to its response:    *)
(*   - the single-category endpoint get_completed_items_this_year, which   *)
(*     pages through the upstream shelf until a stop condition holds and   *)
(*     then filters the accumulated items to the year window;              *)
(*   - the screen endpoint get_completed_screen_items_this_year, which     *)
(*     runs that aggregation for "movie" and "tv" on a two-worker thread   *)
(*     pool and merges the two results with a stable descending sort.      *)
(* Strings that the code compares (timestamps) are sequences of one-       *)
(* character strings compared lexicographically, as Python compares str.   *)
(***************************************************************************)
EXTENDS Integers, Sequences, FiniteSets, TLC

VARIABLES
    req,        \* the HTTP request: endpoint kind, category, year argument
    shelf,      \* the upstream service: per category its items and paging
    today,      \* date.today().year
    agg,        \* per category: one call of get_completed_items_this_year
    calls,      \* per category: the pages requested from upstream, in order
    replies,    \* per category: "data" or "error" for each reply delivered
    pool,       \* the ThreadPoolExecutor of the screen endpoint
    main,       \* the request handler's position and locals
    response    \* the HTTP response, once produced

vars == <<req, shelf, today, agg, calls, replies, pool, main, response>>

(***************************************************************************)
(* Bounds of the model                                                     *)
(***************************************************************************)
\* items on the upstream shelf of a single-category request
MaxItems == 3
\* items on each of the two shelves of a screen request
MaxScreenItems == 2
\* items on a shelf of the specification with fairness
MaxLiveItems == 2
\* pages one aggregation may request before the model stops following it
MaxFetch == 4
\* the calendar year of the model's clock and of the requested window
ThisYear == 2024

(***************************************************************************)
(* Strings                                                                 *)
(***************************************************************************)
\* the characters of a timestamp, in code-point order
Chars == <<"-", "0", "1", "2", "3", "4", "5", "6", "7", "8", "9", ":", "T", "Z">>

Ord(c) == CHOOSE i \in 1..Len(Chars) : Chars[i] = c

MinOf(a, b) == IF a < b THEN a ELSE b

\* Python's str < str: the first differing character decides, a proper
\* prefix is smaller
StrLess(a, b) ==
    \/ \E i \in 1..MinOf(Len(a), Len(b)) :
          /\ \A j \in 1..(i - 1) : a[j] = b[j]
          /\ Ord(a[i]) < Ord(b[i])
    \/ /\ Len(a) < Len(b)
       /\ \A j \in 1..Len(a) : a[j] = b[j]

StrLeq(a, b) == a = b \/ StrLess(a, b)

RECURSIVE Digits(_)
\* str(n) for n >= 0, as "{year}".format(year=n) renders an int
Digits(n) ==
    IF n < 10 THEN <<Chars[n + 2]>>
    ELSE Digits(n \div 10) \o <<Chars[(n % 10) + 2]>>

\* a year argument: the int default of the route, or the <year> path string
IntArg(n) == [int |-> n]
StrArg(s) == [str |-> s]

\* Python's "not year"
Falsy(v) == IF "int" \in DOMAIN v THEN v.int = 0 ELSE v.str = <<>>

\* "{year}".format(year=v)
FormatArg(v) == IF "int" \in DOMAIN v THEN Digits(v.int) ELSE v.str

StartSuffix ==
    <<"-", "0", "1", "-", "0", "1", "T", "0", "0", ":", "0", "0", ":", "0", "0", "Z">>

EndSuffix ==
    <<"-", "1", "2", "-", "3", "1", "T", "2", "3", ":", "5", "9", ":", "5", "9", "Z">>

get_start_date_of_year(year) ==
    LET y == IF Falsy(year) THEN IntArg(today) ELSE year
    IN  FormatArg(y) \o StartSuffix

get_end_date_of_year(year) ==
    LET y == IF Falsy(year) THEN IntArg(today) ELSE year
    IN  FormatArg(y) \o EndSuffix

(***************************************************************************)
(* The upstream service                                                    *)
(***************************************************************************)
\* the timestamps upstream items carry: the last second before the window
\* of ThisYear, its first and last second, the first second after it
Times ==
    { Digits(ThisYear - 1) \o EndSuffix,
      Digits(ThisYear) \o StartSuffix,
      Digits(ThisYear) \o EndSuffix,
      Digits(ThisYear + 1) \o StartSuffix }

\* the timestamps on the shelves of a screen request
ScreenTimes == Times \ {Digits(ThisYear + 1) \o StartSuffix}

PageSizes == {1, 2}

SeqsUpTo(S, n) == UNION { [1..k -> S] : k \in 0..n }

\* number of pages a shelf of n items has at page size sz
RealPages(n, sz) == (n + sz - 1) \div sz

\* a shelf: its items' created_time in upstream order, the page size, and
\* the count and pages fields upstream reports with every page
Shelves(T, n, honest) ==
    { sh \in [times : SeqsUpTo(T, n), size : PageSizes,
              count : 0..n, pages : 0..n] :
        honest => /\ sh.count = Len(sh.times)
                  /\ sh.pages = RealPages(Len(sh.times), sh.size) }

NoShelf == [times |-> <<>>, size |-> 1, count |-> 0, pages |-> 0]

\* cover images cycle through the extensions along the shelf
Extensions == <<".jpg", ".png", ".webp">>

UpstreamItem(c, i) ==
    [ item |-> [ cover_image_url |-> <<"cover", Extensions[(i % 3) + 1]>>,
                 id |-> <<c, i>> ],
      created_time |-> shelf[c].times[i] ]

\* the JSON body of GET api/me/shelf/complete?category=c&page=p
PageBody(c, p) ==
    LET sz == shelf[c].size
        n  == Len(shelf[c].times)
        lo == (p - 1) * sz + 1
        hi == MinOf(p * sz, n)
    IN  [ data  |-> [k \in 1..(IF hi >= lo THEN hi - lo + 1 ELSE 0) |->
                        UpstreamItem(c, lo + k - 1)],
          count |-> shelf[c].count,
          pages |-> shelf[c].pages ]

\* an error body (auth failure, rate limit): JSON without "data"
ErrorBody == [detail |-> "error"]

UpstreamReplies(c, p) == {PageBody(c, p), ErrorBody}

\* what a reply is logged as
Kind(result) == IF "data" \in DOMAIN result THEN "data" ELSE "error"

(***************************************************************************)
(* get_shelf_items_from_neodb                                              *)
(***************************************************************************)
JPG_THUMBNAIL_SUFFIX == <<".200x200_q85_autocrop_crop-scale", ".jpg">>
PNG_THUMBNAIL_SUFFIX == <<".200x200_q85_autocrop_crop-scale", ".png">>

EndsWith(url, ext) == url # <<>> /\ url[Len(url)] = ext

\* mutant: the rewrite of lines 136-139 run a second time over its result
ThumbnailTwice(url) ==
    IF EndsWith(url, ".jpg") THEN url \o JPG_THUMBNAIL_SUFFIX \o JPG_THUMBNAIL_SUFFIX
    ELSE IF EndsWith(url, ".png") THEN url \o PNG_THUMBNAIL_SUFFIX \o PNG_THUMBNAIL_SUFFIX
    ELSE url

Thumbnail(url) ==
    IF EndsWith(url, ".jpg") THEN url \o JPG_THUMBNAIL_SUFFIX
    ELSE IF EndsWith(url, ".png") THEN url \o PNG_THUMBNAIL_SUFFIX
    ELSE url

HasData(result) == "data" \in DOMAIN result

\* mutant: a body without "data" read as an empty page
ErrorAsEmptyPage(result) ==
    IF "data" \notin DOMAIN result
    THEN [raised |-> FALSE, data |-> <<>>, count |-> 0, pages |-> 0]
    ELSE [ raised |-> FALSE,
           data   |-> [k \in 1..Len(result.data) |->
                         [ item |-> [ cover_image_url |->
                                        Thumbnail(result.data[k].item.cover_image_url),
                                      id |-> result.data[k].item.id ],
                           created_time |-> result.data[k].created_time ]],
           count  |-> result.count,
           pages  |-> result.pages ]

\* the value returned for the JSON body result, or the exception raised
get_shelf_items_from_neodb(result) ==
    IF ~HasData(result)
    THEN [raised |-> TRUE]
    ELSE [ raised |-> FALSE,
           data   |-> [k \in 1..Len(result.data) |->
                         [ item |-> [ cover_image_url |->
                                        Thumbnail(result.data[k].item.cover_image_url),
                                      id |-> result.data[k].item.id ],
                           created_time |-> result.data[k].created_time ]],
           count  |-> result.count,
           pages  |-> result.pages ]

(***************************************************************************)
(* get_completed_items_this_year                                           *)
(***************************************************************************)
\* mutant: the category check of line 53 lets one more string through
ValidCategoriesWide == {"book", "music", "game", "movie", "tv", "podcast"}

\* line 53
ValidCategories == {"book", "music", "game", "movie", "tv"}

\* the categories the model's requests and shelves range over; "podcast"
\* stands for every string outside ValidCategories
Categories == {"book", "movie", "tv", "podcast"}

Last(s) == s[Len(s)]

\* mutant: the date test of line 66 made non-strict
StopFirstLeq(completed_items, resp, start) ==
    \/ completed_items = <<>>
    \/ resp.count = Len(completed_items)
    \/ resp.pages = 1
    \/ StrLeq(completed_items[Len(completed_items)].created_time, start)

\* mutant: the test after page 1 without "pages == 1" (line 65)
StopFirstNoPages(completed_items, resp, start) ==
    \/ completed_items = <<>>
    \/ resp.count = Len(completed_items)
    \/ StrLess(completed_items[Len(completed_items)].created_time, start)

\* mutant: the test after page 1 without the count test (line 64)
StopFirstNoCount(completed_items, resp, start) ==
    \/ completed_items = <<>>
    \/ resp.pages = 1
    \/ StrLess(completed_items[Len(completed_items)].created_time, start)

\* mutant: the test after page 1 without "not completed_items" (line 63)
StopFirstNoEmpty(completed_items, resp, start) ==
    \/ resp.count = Len(completed_items)
    \/ resp.pages = 1
    \/ /\ completed_items # <<>>
       /\ StrLess(completed_items[Len(completed_items)].created_time, start)

\* mutant: an empty page 1 stops only when it also reports count 0
StopFirstEmptyIfZero(completed_items, resp, start) ==
    \/ completed_items = <<>> /\ resp.count = 0
    \/ resp.count = Len(completed_items)
    \/ resp.pages = 1
    \/ /\ completed_items # <<>>
       /\ StrLess(completed_items[Len(completed_items)].created_time, start)

\* lines 62-67: the test after page 1
StopFirst(completed_items, resp, start) ==
    \/ completed_items = <<>>
    \/ resp.count = Len(completed_items)
    \/ resp.pages = 1
    \/ StrLess(Last(completed_items).created_time, start)

\* mutant: the loop without the date test of line 86
StopLoopNoDate(current_page, total, completed_items, start) ==
    current_page = total

\* mutant: the loop without the page-total test of line 85
StopLoopDateOnly(current_page, total, completed_items, start) ==
    StrLess(completed_items[Len(completed_items)].created_time, start)

\* mutant: the date test of line 86 made non-strict
StopLoopLeq(current_page, total, completed_items, start) ==
    \/ current_page = total
    \/ StrLeq(completed_items[Len(completed_items)].created_time, start)

\* lines 84-87: the test after every later page
StopLoop(current_page, total, completed_items, start) ==
    \/ current_page = total
    \/ StrLess(Last(completed_items).created_time, start)

\* mutant: both comparisons of lines 72-74 made strict
InWindowStrict(item, start, end) ==
    /\ StrLess(start, item.created_time)
    /\ StrLess(item.created_time, end)

\* lines 72-74: start <= item["created_time"] <= end
InWindow(item, start, end) ==
    /\ StrLeq(start, item.created_time)
    /\ StrLeq(item.created_time, end)

\* mutant: the accumulated items returned without the filter
YearDataAll(completed_items, start, end) == [data |-> completed_items]

\* mutant: the filtered items returned last-fetched first
YearDataReversed(completed_items, start, end) ==
    LET Keep(item) ==
            /\ StrLeq(start, item.created_time)
            /\ StrLeq(item.created_time, end)
        kept == SelectSeq(completed_items, Keep)
    IN  [data |-> [k \in 1..Len(kept) |-> kept[Len(kept) + 1 - k]]]

\* lines 68-76 and 88-96: the returned dict
YearData(completed_items, start, end) ==
    LET Keep(item) == InWindow(item, start, end)
    IN  [data |-> SelectSeq(completed_items, Keep)]

IdleAgg ==
    [ pc |-> "idle", year |-> IntArg(0), current_page |-> 0,
      start |-> <<>>, end |-> <<>>, completed_items |-> <<>>,
      total |-> 0, ret |-> [data |-> <<>>] ]

\* "window": between the two clock reads of lines 57 and 58, a position
\* only the specification with a running clock stops at
Running == {"window", "fetch1", "loop", "fetchN"}
Finished == {"returned", "rejected", "raised"}

\* mutant: page 1 requested ahead of the category check
EnterFetchFirst(c, year) ==
    /\ calls' = [calls EXCEPT ![c] = Append(@, 1)]
    /\ IF c \notin ValidCategories
       THEN agg' = [agg EXCEPT ![c].pc = "rejected", ![c].year = year,
                               ![c].ret = [text |-> "invalid category", status |-> 400]]
       ELSE agg' = [agg EXCEPT ![c].pc = "fetch1",
                               ![c].year = year,
                               ![c].current_page = 1,
                               ![c].start = get_start_date_of_year(year),
                               ![c].end = get_end_date_of_year(year)]

\* lines 53-60: the category check, the window, the request for page 1
Enter(c, year) ==
    IF c \notin ValidCategories
    THEN /\ agg' = [agg EXCEPT ![c].pc = "rejected", ![c].year = year,
                               ![c].ret = [text |-> "invalid category", status |-> 400]]
         /\ UNCHANGED calls
    ELSE /\ agg' = [agg EXCEPT ![c].pc = "fetch1",
                               ![c].year = year,
                               ![c].current_page = 1,
                               ![c].start = get_start_date_of_year(year),
                               ![c].end = get_end_date_of_year(year)]
         /\ calls' = [calls EXCEPT ![c] = Append(@, 1)]

\* lines 60-78: the reply to page 1 arrives
FirstPage(c) ==
    /\ agg[c].pc = "fetch1"
    /\ \E result \in UpstreamReplies(c, agg[c].current_page) :
         LET resp == get_shelf_items_from_neodb(result) IN
         /\ replies' = [replies EXCEPT ![c] = Append(@, Kind(result))]
         /\ IF resp.raised
            THEN agg' = [agg EXCEPT ![c].pc = "raised"]
            ELSE IF StopFirst(resp.data, resp, agg[c].start)
            THEN agg' = [agg EXCEPT ![c].pc = "returned",
                                    ![c].completed_items = resp.data,
                                    ![c].ret = YearData(resp.data, agg[c].start, agg[c].end)]
            ELSE agg' = [agg EXCEPT ![c].pc = "loop",
                                    ![c].completed_items = resp.data,
                                    ![c].total = resp.pages]
    /\ UNCHANGED <<req, shelf, today, calls, pool, main, response>>

\* mutant: an iteration that advances the page number by two
NextPageSkip(c) ==
    /\ agg[c].pc = "loop"
    /\ agg[c].current_page < MaxFetch
    /\ agg' = [agg EXCEPT ![c].pc = "fetchN", ![c].current_page = @ + 2]
    /\ calls' = [calls EXCEPT ![c] = Append(@, agg[c].current_page + 2)]
    /\ UNCHANGED <<req, shelf, today, replies, pool, main, response>>

\* lines 79-83: the next iteration requests the next page
NextPage(c) ==
    /\ agg[c].pc = "loop"
    /\ agg[c].current_page < MaxFetch
    /\ agg' = [agg EXCEPT ![c].pc = "fetchN", ![c].current_page = @ + 1]
    /\ calls' = [calls EXCEPT ![c] = Append(@, agg[c].current_page + 1)]
    /\ UNCHANGED <<req, shelf, today, replies, pool, main, response>>

\* mutant: later pages appended to one accumulator that all calls share
LaterPageShared(c) ==
    /\ agg[c].pc = "fetchN"
    /\ \E result \in UpstreamReplies(c, agg[c].current_page) :
         LET resp == get_shelf_items_from_neodb(result) IN
         /\ replies' = [replies EXCEPT ![c] = Append(@, Kind(result))]
         /\ IF resp.raised
            THEN agg' = [agg EXCEPT ![c].pc = "raised"]
            ELSE LET items == agg["movie"].completed_items \o resp.data IN
                 IF StopLoop(agg[c].current_page, agg[c].total, items, agg[c].start)
                 THEN agg' = [agg EXCEPT ![c].pc = "returned",
                                         !["movie"].completed_items = items,
                                         ![c].ret = YearData(items, agg[c].start, agg[c].end)]
                 ELSE agg' = [agg EXCEPT ![c].pc = "loop",
                                         !["movie"].completed_items = items]
    /\ UNCHANGED <<req, shelf, today, calls, pool, main, response>>

\* lines 81-96: the reply to a later page arrives
LaterPage(c) ==
    /\ agg[c].pc = "fetchN"
    /\ \E result \in UpstreamReplies(c, agg[c].current_page) :
         LET resp == get_shelf_items_from_neodb(result) IN
         /\ replies' = [replies EXCEPT ![c] = Append(@, Kind(result))]
         /\ IF resp.raised
            THEN agg' = [agg EXCEPT ![c].pc = "raised"]
            ELSE LET items == agg[c].completed_items \o resp.data IN
                 IF StopLoop(agg[c].current_page, agg[c].total, items, agg[c].start)
                 THEN agg' = [agg EXCEPT ![c].pc = "returned",
                                         ![c].completed_items = items,
                                         ![c].ret = YearData(items, agg[c].start, agg[c].end)]
                 ELSE agg' = [agg EXCEPT ![c].pc = "loop",
                                         ![c].completed_items = items]
    /\ UNCHANGED <<req, shelf, today, calls, pool, main, response>>

(***************************************************************************)
(* The single-category endpoint                                            *)
(***************************************************************************)
NoResponse == [status |-> 0, text |-> "", data |-> <<>>]

\* the route calls get_completed_items_this_year(category, year)
SingleCall ==
    /\ main.pc = "single"
    /\ agg[req.category].pc = "idle"
    /\ Enter(req.category, req.year)
    /\ UNCHANGED <<req, shelf, today, replies, pool, main, response>>

\* the framework turns the returned dict, the returned (text, status) pair
\* or the uncaught exception into the HTTP response
SingleRespond ==
    /\ main.pc = "single"
    /\ agg[req.category].pc \in Finished
    /\ response' =
         CASE agg[req.category].pc = "returned" ->
                [status |-> 200, text |-> "", data |-> agg[req.category].ret.data]
           [] agg[req.category].pc = "rejected" ->
                [status |-> agg[req.category].ret.status,
                 text |-> agg[req.category].ret.text, data |-> <<>>]
           [] OTHER ->
                [status |-> 500, text |-> "", data |-> <<>>]
    /\ main' = [main EXCEPT !.pc = "done"]
    /\ UNCHANGED <<req, shelf, today, agg, calls, replies, pool>>

(***************************************************************************)
(* The screen endpoint                                                     *)
(***************************************************************************)
\* line 113: ThreadPoolExecutor(max_workers=2)
MaxWorkers == 2

Busy == Cardinality({c \in Categories : agg[c].pc \in Running})

\* the executor's idle semaphore: released by a worker after each work
\* item, acquired by a submit that reuses an idle worker
IdleSemaphore ==
    Cardinality({c \in Categories : agg[c].pc \in Finished}) - pool.acquired

\* mutant: an executor that never starts a second worker thread
SubmitOneThread(c) ==
    pool' = IF pool.threads < 1
            THEN [pool EXCEPT !.queue = Append(@, c), !.threads = @ + 1]
            ELSE [pool EXCEPT !.queue = Append(@, c)]

\* executor.submit(fetch_category, c): queue the work item, and start a
\* worker thread unless one is idle or max_workers threads exist
Submit(c) ==
    pool' = IF IdleSemaphore > 0
            THEN [pool EXCEPT !.queue = Append(@, c), !.acquired = @ + 1]
            ELSE IF pool.threads < MaxWorkers
            THEN [pool EXCEPT !.queue = Append(@, c), !.threads = @ + 1]
            ELSE [pool EXCEPT !.queue = Append(@, c)]

\* line 114
SubmitMovie ==
    /\ main.pc = "l114"
    /\ Submit("movie")
    /\ main' = [main EXCEPT !.pc = "l115"]
    /\ UNCHANGED <<req, shelf, today, agg, calls, replies, response>>

\* line 115
SubmitTv ==
    /\ main.pc = "l115"
    /\ Submit("tv")
    /\ main' = [main EXCEPT !.pc = "l117"]
    /\ UNCHANGED <<req, shelf, today, agg, calls, replies, response>>

\* a free worker thread takes the oldest work item and runs
\* fetch_category(c) (lines 108-110) up to its first upstream request
WorkerRun(c) ==
    /\ pool.queue # <<>>
    /\ Head(pool.queue) = c
    /\ Busy < pool.threads
    /\ pool' = [pool EXCEPT !.queue = Tail(@)]
    /\ Enter(c, req.year)
    /\ UNCHANGED <<req, shelf, today, replies, main, response>>

\* line 117: movie_future.result() returns the data or re-raises
ResultMovie ==
    /\ main.pc = "l117"
    /\ agg["movie"].pc \in Finished
    /\ main' = IF agg["movie"].pc = "returned"
               THEN [main EXCEPT !.pc = "l118", !.movies = agg["movie"].ret.data]
               ELSE [main EXCEPT !.pc = "exit_raise"]
    /\ UNCHANGED <<req, shelf, today, agg, calls, replies, pool, response>>

\* mutant: a failed TV aggregation read as an empty result
ResultTvSwallow ==
    /\ main.pc = "l118"
    /\ agg["tv"].pc \in {"returned", "rejected", "raised"}
    /\ main' = IF agg["tv"].pc = "returned"
               THEN [main EXCEPT !.pc = "exit_ok", !.tvs = agg["tv"].ret.data]
               ELSE [main EXCEPT !.pc = "exit_ok", !.tvs = <<>>]
    /\ UNCHANGED <<req, shelf, today, agg, calls, replies, pool, response>>

\* line 118: tv_future.result() returns the data or re-raises
ResultTv ==
    /\ main.pc = "l118"
    /\ agg["tv"].pc \in Finished
    /\ main' = IF agg["tv"].pc = "returned"
               THEN [main EXCEPT !.pc = "exit_ok", !.tvs = agg["tv"].ret.data]
               ELSE [main EXCEPT !.pc = "exit_raise"]
    /\ UNCHANGED <<req, shelf, today, agg, calls, replies, pool, response>>

\* mutant: a with block that does not join the worker threads
PoolNotJoined == TRUE

\* leaving the with block: shutdown(wait=True) joins the worker threads,
\* which first run every queued work item
PoolDrained == pool.queue = <<>> /\ Busy = 0

Front(s) == SubSeq(s, 1, Len(s) - 1)

\* x placed behind every element whose created_time is not smaller
InsertDesc(s, x) ==
    LET k == Cardinality({i \in 1..Len(s) :
                            ~StrLess(s[i].created_time, x.created_time)})
    IN  SubSeq(s, 1, k) \o <<x>> \o SubSeq(s, k + 1, Len(s))

RECURSIVE SortedDesc(_)
\* sorted(s, key=lambda x: x["created_time"], reverse=True): descending
\* and stable
SortedDesc(s) ==
    IF s = <<>> THEN <<>> ELSE InsertDesc(SortedDesc(Front(s)), Last(s))

\* mutant: the two lists concatenated and left unsorted
MergedUnsorted(movies, tvs) == movies \o tvs

\* mutant: the sort applied to the movie list alone
MergedMoviesOnly(movies, tvs) == SortedDesc(movies)

\* mutant: a descending sort that puts TV items first among equal keys
MergedTvFirst(movies, tvs) == SortedDesc(tvs \o movies)

\* line 120: the merged list
Merged(movies, tvs) == SortedDesc(movies \o tvs)

\* the with block ends normally, line 120 returns the merged data
ExitOk ==
    /\ main.pc = "exit_ok"
    /\ PoolDrained
    /\ response' = [status |-> 200, text |-> "", data |-> Merged(main.movies, main.tvs)]
    /\ main' = [main EXCEPT !.pc = "done"]
    /\ UNCHANGED <<req, shelf, today, agg, calls, replies, pool>>

\* the with block ends by the exception of result(), which then leaves
\* the handler uncaught
ExitRaise ==
    /\ main.pc = "exit_raise"
    /\ PoolDrained
    /\ response' = [status |-> 500, text |-> "", data |-> <<>>]
    /\ main' = [main EXCEPT !.pc = "done"]
    /\ UNCHANGED <<req, shelf, today, agg, calls, replies, pool>>

(***************************************************************************)
(* Specification                                                           *)
(***************************************************************************)
\* no <year> segment (the default 0 of lines 52 and 101), the current year,
\* or the segment "0"; a path segment reaches the view as a string
YearArgs == {IntArg(0), StrArg(Digits(ThisYear)), StrArg(<<"0">>)}

InitCommon ==
    /\ today = ThisYear
    /\ agg = [c \in Categories |-> IdleAgg]
    /\ calls = [c \in Categories |-> <<>>]
    /\ replies = [c \in Categories |-> <<>>]
    /\ pool = [threads |-> 0, acquired |-> 0, queue |-> <<>>]
    /\ response = NoResponse

\* GET /api/complete/<category>[/<year>]; the upstream may report any
\* count and pages
InitSingle ==
    /\ req \in [kind : {"single"}, category : {"book", "podcast"}, year : YearArgs]
    /\ \E sh \in Shelves(Times, MaxItems, FALSE) :
         shelf = [c \in Categories |->
                    IF c = req.category /\ c \in ValidCategories THEN sh ELSE NoShelf]
    /\ main = [pc |-> "single", movies |-> <<>>, tvs |-> <<>>]

\* GET /api/complete/screen[/<year>]; the upstream reports the real count
\* and pages and serves both categories at one page size
InitScreen ==
    /\ req \in [kind : {"screen"}, category : {"screen"}, year : YearArgs]
    /\ \E m \in Shelves(ScreenTimes, MaxScreenItems, TRUE),
          t \in Shelves(ScreenTimes, MaxScreenItems, TRUE) :
         /\ m.size = t.size
         /\ shelf = [c \in Categories |->
                    IF c = "movie" THEN m ELSE IF c = "tv" THEN t ELSE NoShelf]
    /\ main = [pc |-> "l114", movies |-> <<>>, tvs |-> <<>>]

\* one request to the single-category endpoint
Init == InitCommon /\ InitSingle

Pages(c) ==
    \/ FirstPage(c)
    \/ NextPage(c)
    \/ LaterPage(c)

Next ==
    \/ SingleCall
    \/ SingleRespond
    \/ \E c \in Categories : Pages(c)

Spec == Init /\ [][Next]_vars

\* one request to the screen endpoint
ScreenInit == InitCommon /\ InitScreen

ScreenNext ==
    \/ SubmitMovie
    \/ SubmitTv
    \/ ResultMovie
    \/ ResultTv
    \/ ExitOk
    \/ ExitRaise
    \/ \E c \in Categories : WorkerRun(c) \/ Pages(c)

ScreenSpec == ScreenInit /\ [][ScreenNext]_vars

\* the timestamps of the specification with fairness: the first second of
\* the window of ThisYear and the last second before it
LiveTimes == {Digits(ThisYear) \o StartSuffix, Digits(ThisYear - 1) \o EndSuffix}

\* a request to either endpoint; the upstream of a single-category request
\* may report any count and pages, that of a screen request the real ones
LiveInit ==
    /\ InitCommon
    /\ \/ /\ req \in [kind : {"single"}, category : {"book", "podcast"},
                       year : YearArgs]
          /\ \E sh \in Shelves(LiveTimes, MaxLiveItems, FALSE) :
               shelf = [c \in Categories |->
                          IF c = req.category /\ c \in ValidCategories
                          THEN sh ELSE NoShelf]
          /\ main = [pc |-> "single", movies |-> <<>>, tvs |-> <<>>]
       \/ /\ req \in [kind : {"screen"}, category : {"screen"}, year : YearArgs]
          /\ \E m \in Shelves(LiveTimes, MaxLiveItems, TRUE),
                t \in Shelves(LiveTimes, MaxLiveItems, TRUE) :
               /\ m.size = t.size
               /\ shelf = [c \in Categories |->
                          IF c = "movie" THEN m ELSE IF c = "tv" THEN t ELSE NoShelf]
          /\ main = [pc |-> "l114", movies |-> <<>>, tvs |-> <<>>]

\* the steps of the thread that handles the request, up to the return of
\* line 120
HandlerStepBeforeReturn ==
    \/ SingleCall
    \/ SingleRespond
    \/ SubmitMovie
    \/ SubmitTv
    \/ ResultMovie
    \/ ResultTv
    \/ ExitRaise

\* the steps of the thread that handles the request
HandlerStep == HandlerStepBeforeReturn \/ ExitOk

\* the condition under which ExitOk can be taken
ExitOkEnabled == main.pc = "exit_ok" /\ PoolDrained

\* the steps of the aggregation of category c: on a worker thread of the
\* pool, or on the handler's thread for a single-category request
SubtaskStep(c) == WorkerRun(c) \/ Pages(c)

LiveNext ==
    \/ HandlerStep
    \/ \E c \in Categories : SubtaskStep(c)

\* every upstream request is answered, the handler's thread keeps running,
\* and the scheduler lets each subtask run; the third conjunct is weak
\* fairness of ExitOk with its enabling condition written out
LiveSpec ==
    /\ LiveInit
    /\ [][LiveNext]_vars
    /\ WF_vars(HandlerStepBeforeReturn)
    /\ ([]<>~ExitOkEnabled \/ []<><<ExitOk>>_vars)
    /\ \A c \in Categories : WF_vars(SubtaskStep(c))

(***************************************************************************)
(* The clock.  Spec, ScreenSpec and LiveSpec follow a request during which *)
(* the calendar year does not change, so that the reads of                 *)
(* date.today() in lines 37 and 45 return one value and Enter may take     *)
(* them in one step.  ClockSpec lets the year change at any moment and     *)
(* takes the two reads in two steps.                                       *)
(***************************************************************************)
\* midnight of December 31 passes
Tick ==
    /\ today < ThisYear + 1
    /\ today' = today + 1
    /\ UNCHANGED <<req, shelf, agg, calls, replies, pool, main, response>>

\* lines 53-57: the category check and get_start_date_of_year(year)
EnterStart(c, year) ==
    IF c \notin ValidCategories
    THEN agg' = [agg EXCEPT ![c].pc = "rejected", ![c].year = year,
                            ![c].ret = [text |-> "invalid category", status |-> 400]]
    ELSE agg' = [agg EXCEPT ![c].pc = "window",
                            ![c].year = year,
                            ![c].current_page = 1,
                            ![c].start = get_start_date_of_year(year)]

\* lines 58-60: get_end_date_of_year(year) and the request for page 1
EnterEnd(c) ==
    /\ agg[c].pc = "window"
    /\ agg' = [agg EXCEPT ![c].pc = "fetch1",
                          ![c].end = get_end_date_of_year(agg[c].year)]
    /\ calls' = [calls EXCEPT ![c] = Append(@, 1)]
    /\ UNCHANGED <<req, shelf, today, replies, pool, main, response>>

\* the route calls get_completed_items_this_year(category, year)
ClockSingleCall ==
    /\ main.pc = "single"
    /\ agg[req.category].pc = "idle"
    /\ EnterStart(req.category, req.year)
    /\ UNCHANGED <<req, shelf, today, calls, replies, pool, main, response>>

\* a free worker thread takes the oldest work item and runs
\* fetch_category(c) up to its first clock read
ClockWorkerRun(c) ==
    /\ pool.queue # <<>>
    /\ Head(pool.queue) = c
    /\ Busy < pool.threads
    /\ pool' = [pool EXCEPT !.queue = Tail(@)]
    /\ EnterStart(c, req.year)
    /\ UNCHANGED <<req, shelf, today, calls, replies, main, response>>

\* a request to either endpoint, received in ThisYear, over one consistent
\* shelf that every category serves
ClockInit ==
    /\ InitCommon
    /\ \E sh \in Shelves(LiveTimes, MaxLiveItems, TRUE) :
         \/ /\ req \in [kind : {"single"}, category : {"book", "podcast"},
                          year : YearArgs]
            /\ shelf = [c \in Categories |-> IF c = "book" THEN sh ELSE NoShelf]
            /\ main = [pc |-> "single", movies |-> <<>>, tvs |-> <<>>]
         \/ /\ req \in [kind : {"screen"}, category : {"screen"}, year : YearArgs]
            /\ shelf = [c \in Categories |->
                          IF c \in {"movie", "tv"} THEN sh ELSE NoShelf]
            /\ main = [pc |-> "l114", movies |-> <<>>, tvs |-> <<>>]

ClockNext ==
    \/ Tick
    \/ ClockSingleCall
    \/ SingleRespond
    \/ SubmitMovie
    \/ SubmitTv
    \/ ResultMovie
    \/ ResultTv
    \/ ExitOk
    \/ ExitRaise
    \/ \E c \in Categories : ClockWorkerRun(c) \/ EnterEnd(c) \/ Pages(c)

ClockSpec == ClockInit /\ [][ClockNext]_vars

(***************************************************************************)
(* Properties                                                              *)
(***************************************************************************)
\* the year the request names: its <year>, or the current year without one
YearString == IF Falsy(req.year) THEN Digits(today) ELSE req.year.str
WinStart == YearString \o StartSuffix
WinEnd == YearString \o EndSuffix
PrevYearEnd == Digits(ThisYear - 1) \o EndSuffix

Between(t) == StrLeq(WinStart, t) /\ StrLeq(t, WinEnd)

\* created_time never increases along the shelf
SortedShelf(c) ==
    \A i, j \in 1..Len(shelf[c].times) :
        i < j => ~StrLess(shelf[c].times[i], shelf[c].times[j])

\* the reported pages is the real number of pages
PagesAsReported(c) ==
    shelf[c].pages = RealPages(Len(shelf[c].times), shelf[c].size)

HonestShelf(c) == PagesAsReported(c) /\ shelf[c].count = Len(shelf[c].times)

\* an item as <<id, created_time>>
Stamps(items) == [k \in 1..Len(items) |-> <<items[k].item.id, items[k].created_time>>]

\* the items of the whole shelf of c that lie in the window, in shelf order
ShelfInWindow(c) ==
    LET all == [i \in 1..Len(shelf[c].times) |-> <<<<c, i>>, shelf[c].times[i]>>]
        Keep(x) == Between(x[2])
    IN  SelectSeq(all, Keep)

\* C1: over a shelf in non-increasing created_time order whose reported
\* pages and count are the real ones, a call that returns returns exactly
\* the items of the whole shelf (fetched or skipped pages alike) whose
\* created_time lies in [start, end] of the year.
C1_ExactYearItems ==
    \A c \in Categories :
        (agg[c].pc = "returned" /\ SortedShelf(c) /\ HonestShelf(c))
            => Stamps(agg[c].ret.data) = ShelfInWindow(c)

\* C1 witness: such a call returned items although it skipped a page
C1_Witness ==
    \E c \in Categories :
        /\ agg[c].pc = "returned" /\ SortedShelf(c) /\ HonestShelf(c)
        /\ Len(calls[c]) < shelf[c].pages
        /\ Len(calls[c]) >= 2
        /\ agg[c].ret.data # <<>>
        /\ Len(agg[c].ret.data) < Len(agg[c].completed_items)

\* page p of the shelf of c ends with an item older than the window start
OldPage(c, p) ==
    LET data == PageBody(c, p).data
    IN  data # <<>> /\ StrLess(data[Len(data)].created_time, WinStart)

HasK(c) == \E p \in 1..RealPages(Len(shelf[c].times), shelf[c].size) : OldPage(c, p)

\* the first such page
FirstOldPage(c) ==
    CHOOSE p \in 1..RealPages(Len(shelf[c].times), shelf[c].size) :
        OldPage(c, p) /\ \A q \in 1..(p - 1) : ~OldPage(c, q)

\* no page beyond K is requested, and a call that returns has requested
\* exactly the pages 1..K
ExactlyK(c) ==
    /\ \A i \in 1..Len(calls[c]) : calls[c][i] <= FirstOldPage(c)
    /\ agg[c].pc = "returned" => calls[c] = [i \in 1..FirstOldPage(c) |-> i]

\* C2 as stated: given an upstream of N pages where page K is the first
\* page whose last item is older than the window start, exactly the pages
\* 1..K are fetched and page K+1 never is.
C2_AsStated ==
    \A c \in Categories : (PagesAsReported(c) /\ HasK(c)) => ExactlyK(c)

\* C2 amended: the same, for an upstream whose page 1 does not report a
\* count equal to its own number of items unless K = 1.
C2_ExactFetches ==
    \A c \in Categories :
        ( /\ PagesAsReported(c)
          /\ HasK(c)
          /\ \/ FirstOldPage(c) = 1
             \/ shelf[c].count # Len(PageBody(c, 1).data) )
            => ExactlyK(c)

\* C2 witness: three pages, K = 2, the call returned after pages 1 and 2
C2_Witness ==
    \E c \in Categories :
        /\ agg[c].pc = "returned"
        /\ PagesAsReported(c) /\ HasK(c)
        /\ shelf[c].pages = 3
        /\ FirstOldPage(c) = 2
        /\ calls[c] = <<1, 2>>

\* C3: on every return path and for any upstream content, every item of
\* the returned data has start <= created_time <= end; items fetched only
\* to detect the boundary are not in it.
C3_ResultInWindow ==
    /\ \A c \in Categories :
         agg[c].pc = "returned" =>
             \A k \in 1..Len(agg[c].ret.data) : Between(agg[c].ret.data[k].created_time)
    /\ \A k \in 1..Len(response.data) : Between(response.data[k].created_time)

\* C3 witness: a call returned from the loop with data, having fetched an
\* item older than the window start
C3_Witness ==
    \E c \in Categories :
        /\ agg[c].pc = "returned"
        /\ Len(calls[c]) >= 2
        /\ agg[c].ret.data # <<>>
        /\ \E k \in 1..Len(agg[c].completed_items) :
             StrLess(agg[c].completed_items[k].created_time, WinStart)

InResult(c, item) == \E k \in 1..Len(agg[c].ret.data) : agg[c].ret.data[k] = item

\* C4: a fetched item whose created_time is exactly the first or exactly
\* the last second of the year is in the result; one at the last second of
\* the previous year is not.
C4_InclusiveBounds ==
    \A c \in Categories :
        (agg[c].pc = "returned" /\ YearString = Digits(ThisYear)) =>
            \A k \in 1..Len(agg[c].completed_items) :
                LET item == agg[c].completed_items[k] IN
                /\ item.created_time = Digits(ThisYear) \o StartSuffix => InResult(c, item)
                /\ item.created_time = Digits(ThisYear) \o EndSuffix => InResult(c, item)
                /\ item.created_time = PrevYearEnd => ~InResult(c, item)

\* C4 witness: a call returned having fetched an item at each of the three
\* instants
C4_Witness ==
    \E c \in Categories :
        /\ agg[c].pc = "returned"
        /\ \A t \in {WinStart, WinEnd, PrevYearEnd} :
             \E k \in 1..Len(agg[c].completed_items) :
                 agg[c].completed_items[k].created_time = t
        /\ Len(agg[c].ret.data) = 2

\* C5: a single-category request whose category is none of book, music,
\* game, movie, tv is answered 400 "invalid category", with or without a
\* year.
C5_InvalidCategory400 ==
    ( /\ req.kind = "single"
      /\ req.category \notin {"book", "music", "game", "movie", "tv"}
      /\ main.pc = "done" )
        => /\ response.status = 400
           /\ response.text = "invalid category"
           /\ response.data = <<>>

\* C5 witness: such a request without a year has been answered
C5_Witness ==
    /\ req.kind = "single"
    /\ req.category = "podcast"
    /\ req.year = IntArg(0)
    /\ main.pc = "done"
    /\ response.status = 400

IsError(c, i) == replies[c][i] = "error"

\* C6: once an upstream reply lacks "data", on page 1 or on a later page,
\* that category requests no further page and the request does not answer
\* with data: it ends in a failure.
C6_MissingDataFails ==
    \A c \in Categories :
        (\E i \in 1..Len(replies[c]) : IsError(c, i)) =>
            /\ \A i \in 1..Len(replies[c]) : IsError(c, i) => i = Len(replies[c])
            /\ Len(calls[c]) = Len(replies[c])
            /\ response.status # 200
            /\ response.data = <<>>
            /\ main.pc = "done" => response.status = 500

\* C6 witness: a later page came without "data" after items had been
\* accumulated, and the request failed
C6_Witness ==
    \E c \in Categories :
        /\ Len(replies[c]) >= 2
        /\ IsError(c, Len(replies[c]))
        /\ agg[c].completed_items # <<>>
        /\ \E k \in 1..Len(agg[c].completed_items) :
             Between(agg[c].completed_items[k].created_time)
        /\ main.pc = "done"
        /\ response.status = 500

\* C7: the data of the screen response is in non-increasing created_time
\* order, whatever the order of the movie and TV results.
C7_SortedResponse ==
    response.status = 200 =>
        \A k \in 1..(Len(response.data) - 1) :
            ~StrLess(response.data[k].created_time, response.data[k + 1].created_time)

Ascends(items) ==
    \E i, j \in 1..Len(items) :
        i < j /\ StrLess(items[i].created_time, items[j].created_time)

\* C7 witness: a screen response was built from a movie result that was
\* itself in ascending order and a non-empty TV result
C7_Witness ==
    /\ req.kind = "screen"
    /\ response.status = 200
    /\ Ascends(main.movies)
    /\ main.tvs # <<>>
    /\ Len(response.data) = Len(main.movies) + Len(main.tvs)

Count(items, x) == Cardinality({k \in 1..Len(items) : items[k] = x})

Elements(items) == {items[k] : k \in 1..Len(items)}

\* C8: as a multiset the data of the screen response is the movie
\* aggregation's result plus the TV aggregation's result.
C8_MergeKeepsItems ==
    (req.kind = "screen" /\ response.status = 200) =>
        \A x \in Elements(response.data) \cup Elements(agg["movie"].ret.data)
                    \cup Elements(agg["tv"].ret.data) :
            Count(response.data, x) =
                Count(agg["movie"].ret.data, x) + Count(agg["tv"].ret.data, x)

\* C8 witness: a screen response from an empty movie result and a TV
\* result of two items gathered over two pages
C8_Witness ==
    /\ req.kind = "screen"
    /\ response.status = 200
    /\ agg["movie"].ret.data = <<>>
    /\ Len(agg["tv"].ret.data) = 2
    /\ Len(calls["tv"]) = 2
    /\ Len(response.data) = 2

\* C9: when the movie or the TV aggregation fails, the screen request
\* fails as a whole; no response carries the other category's items.
C9_NoPartialResult ==
    ( /\ req.kind = "screen"
      /\ \E c \in {"movie", "tv"} : agg[c].pc = "raised" \/ "error" \in Elements(replies[c]) )
        => /\ response.status # 200
           /\ response.data = <<>>
           /\ main.pc = "done" => response.status = 500

\* C9 witness: the movie aggregation returned items, the TV aggregation
\* failed, and the request failed
C9_Witness ==
    /\ req.kind = "screen"
    /\ agg["movie"].pc = "returned"
    /\ agg["movie"].ret.data # <<>>
    /\ agg["tv"].pc = "raised"
    /\ main.pc = "done"
    /\ response.status = 500

Queued(c) == Cardinality({i \in 1..Len(pool.queue) : pool.queue[i] = c})

Started(c) == IF agg[c].pc = "idle" THEN 0 ELSE 1

\* C10: a screen request runs two subtasks, one aggregation for "movie" and
\* one for "tv", and a submitted subtask never waits for a worker: its
\* first fetch does not wait for the other subtask to finish.
C10_TwoConcurrentSubtasks ==
    req.kind = "screen" =>
        /\ \A c \in Categories \ {"movie", "tv"} : Queued(c) + Started(c) = 0
        /\ Queued("movie") + Started("movie") = (IF main.pc = "l114" THEN 0 ELSE 1)
        /\ Queued("tv") + Started("tv") = (IF main.pc \in {"l114", "l115"} THEN 0 ELSE 1)
        /\ pool.queue # <<>> => Busy < pool.threads
        /\ Busy <= 2

\* C10 witness: the TV subtask's first fetch is in flight while the movie
\* subtask has a later page in flight
C10_Witness ==
    /\ req.kind = "screen"
    /\ agg["movie"].pc = "fetchN"
    /\ agg["tv"].pc = "fetch1"

\* C11: the screen request is answered, with a result or with a failure,
\* only when both subtasks have run to completion or failure: no subtask
\* is still queued or running, and none was dropped.
C11_RespondsAfterBoth ==
    (req.kind = "screen" /\ (main.pc = "done" \/ response # NoResponse)) =>
        /\ \A c \in {"movie", "tv"} : agg[c].pc \in {"returned", "raised"}
        /\ pool.queue = <<>>

\* C11 witness: the movie subtask has failed and result() has re-raised,
\* the TV subtask has a later page in flight, and no response exists yet
C11_Witness ==
    /\ req.kind = "screen"
    /\ main.pc = "exit_raise"
    /\ agg["movie"].pc = "raised"
    /\ agg["tv"].pc = "fetchN"
    /\ response = NoResponse

\* a call that was made and has ended made exactly one fetch, of page 1,
\* and a call that has not ended has made no second one
OneFetch(c) ==
    /\ Len(calls[c]) <= 1
    /\ agg[c].pc \in {"returned", "raised"} => calls[c] = <<1>>

\* the last item of page 1 is not older than the window start, and the
\* shelf has more items than page 1
PageOneGoesOn(c) ==
    LET data == PageBody(c, 1).data IN
    /\ data # <<>>
    /\ ~StrLess(data[Len(data)].created_time, WinStart)
    /\ Len(data) < Len(shelf[c].times)

\* C12: when page 1 reports pages = 1, one upstream fetch is made,
\* whatever the item ages and the reported count.
C12_PagesOneSingleFetch ==
    \A c \in Categories : shelf[c].pages = 1 => OneFetch(c)

\* C12 witness: a call returned after one fetch of a page 1 that reported
\* pages = 1, another count than its item count, and no old item, with
\* more items upstream
C12_Witness ==
    \E c \in Categories :
        /\ agg[c].pc = "returned"
        /\ shelf[c].pages = 1
        /\ shelf[c].count # Len(PageBody(c, 1).data)
        /\ PageOneGoesOn(c)

\* C13: when page 1 reports a count equal to its number of items, one
\* upstream fetch is made, whatever the reported pages and the item ages.
C13_CountSingleFetch ==
    \A c \in Categories :
        shelf[c].count = Len(PageBody(c, 1).data) => OneFetch(c)

\* C13 witness: a call returned after one fetch of a page 1 that reported
\* its own item count, three pages, and no old item, with more items
\* upstream
C13_Witness ==
    \E c \in Categories :
        /\ agg[c].pc = "returned"
        /\ shelf[c].count = Len(PageBody(c, 1).data)
        /\ shelf[c].pages = 3
        /\ PageOneGoesOn(c)

\* C14: when page 1 comes with empty data, one upstream call is made and
\* the response is {"data": []}, whatever count and pages it reports.
C14_EmptyFirstPage ==
    \A c \in Categories :
        PageBody(c, 1).data = <<>> =>
            /\ OneFetch(c)
            /\ agg[c].pc = "returned" => agg[c].ret.data = <<>>
            /\ (req.kind = "single" /\ req.category = c /\ main.pc = "done"
                   /\ replies[c] = <<"data">>)
                 => response = [status |-> 200, text |-> "", data |-> <<>>]

\* C14 witness: an empty page 1 that reported count 2 and pages 3 was
\* answered with empty data after one call
C14_Witness ==
    \E c \in Categories :
        /\ c = req.category
        /\ PageBody(c, 1).data = <<>>
        /\ shelf[c].count = 2
        /\ shelf[c].pages = 3
        /\ calls[c] = <<1>>
        /\ main.pc = "done"
        /\ response.status = 200

\* the URL upstream holds for the item with this id
RawUrl(id) == <<"cover", Extensions[(id[2] % 3) + 1]>>

\* the URL with the thumbnail suffix of its ending appended once
RewrittenOnce(url) ==
    CASE url[Len(url)] = ".jpg" ->
           url \o <<".200x200_q85_autocrop_crop-scale", ".jpg">>
      [] url[Len(url)] = ".png" ->
           url \o <<".200x200_q85_autocrop_crop-scale", ".png">>
      [] OTHER -> url

AllRewrittenOnce(data) ==
    \A k \in 1..Len(data) :
        data[k].item.cover_image_url = RewrittenOnce(RawUrl(data[k].item.id))

\* the shelf position of the k-th item of data
Position(data, k) == data[k].item.id[2]

\* C15: every item that is accumulated, returned or sent carries the cover
\* rewrite applied once to its upstream URL: the jpg suffix once on a .jpg
\* URL, the png suffix once on a .png URL, no change otherwise; on page 1
\* and on later pages.
C15_CoverRewrittenOnce ==
    /\ \A c \in Categories :
          /\ AllRewrittenOnce(agg[c].completed_items)
          /\ agg[c].pc = "returned" => AllRewrittenOnce(agg[c].ret.data)
    /\ AllRewrittenOnce(response.data)

\* C15 witness: a response whose items come from page 1 and from page 3,
\* with a .png, a .webp and a .jpg cover among them
C15_Witness ==
    /\ main.pc = "done"
    /\ response.status = 200
    /\ calls[req.category] = <<1, 2, 3>>
    /\ \A i \in 1..3 :
          \E k \in 1..Len(response.data) : Position(response.data, k) = i

\* the request has no year segment, or its year segment is zero
ZeroOrAbsent(v) == v = IntArg(0) \/ v = StrArg(<<"0">>)

\* the year the window is to be built for
WindowYear(v) == IF ZeroOrAbsent(v) THEN Digits(today) ELSE v.str

Entered(c) == agg[c].pc \in Running \cup {"returned", "raised"}

\* C16 as stated: the window runs from "{year}-01-01T00:00:00Z" to
\* "{year}-12-31T23:59:59Z" for the requested year, and for the current
\* calendar year when the year is zero or absent.
C16_AsStated ==
    \A c \in Categories :
        Entered(c) =>
            /\ agg[c].start = WindowYear(req.year) \o
                 <<"-", "0", "1", "-", "0", "1", "T", "0", "0", ":", "0", "0", ":", "0", "0", "Z">>
            /\ agg[c].end = WindowYear(req.year) \o
                 <<"-", "1", "2", "-", "3", "1", "T", "2", "3", ":", "5", "9", ":", "5", "9", "Z">>

\* C16 witness: a request for year 0 was answered from a window that
\* starts at "0-01-01T00:00:00Z"
C16_Witness ==
    /\ req.year = StrArg(<<"0">>)
    /\ main.pc = "done"
    /\ response.status = 200
    /\ agg[req.category].start =
         <<"0", "-", "0", "1", "-", "0", "1", "T", "0", "0", ":", "0", "0", ":", "0", "0", "Z">>

\* the created_time of the items of the pages 1..n of c, in fetch order
StampsThrough(c, n) ==
    LET sz == shelf[c].size
        k  == MinOf(n * sz, Len(shelf[c].times))
    IN  SubSeq(shelf[c].times, 1, k)

\* the stop condition as the code evaluates it after page n
StopsAfter(c, n) ==
    LET acc == StampsThrough(c, n) IN
    IF n = 1
    THEN \/ acc = <<>>
         \/ shelf[c].count = Len(acc)
         \/ shelf[c].pages = 1
         \/ StrLess(acc[Len(acc)], WinStart)
    ELSE \/ n = shelf[c].pages
         \/ StrLess(acc[Len(acc)], WinStart)

\* C17: within one category the pages requested are 1, 2, ..., n in that
\* order, each once; at most one request is outstanding; and page N+1 is
\* requested only after page N's reply has come with data and the stop
\* condition after page N was false.
C17_SequentialFetches ==
    \A c \in Categories :
        /\ calls[c] = [i \in 1..Len(calls[c]) |-> i]
        /\ Len(calls[c]) - Len(replies[c]) =
             (IF agg[c].pc \in {"fetch1", "fetchN"} THEN 1 ELSE 0)
        /\ \A n \in 1..(Len(calls[c]) - 1) :
             /\ replies[c][n] = "data"
             /\ ~StopsAfter(c, n)

\* C17 witness: page 3 is requested and not yet answered, after pages 1
\* and 2 have been answered with data
C17_Witness ==
    \E c \in Categories :
        /\ calls[c] = <<1, 2, 3>>
        /\ replies[c] = <<"data", "data">>
        /\ agg[c].pc = "fetchN"

\* the number of pages the aggregation of c requests when it runs alone
\* and every reply carries data
SoloPages(c) ==
    CHOOSE n \in 1..MaxFetch :
        StopsAfter(c, n) /\ \A m \in 1..(n - 1) : ~StopsAfter(c, m)

\* the i-th item of the shelf of c as the fetcher hands it on
FetchedItem(c, i) ==
    [ item |-> [ cover_image_url |-> RewrittenOnce(RawUrl(<<c, i>>)),
                 id |-> <<c, i>> ],
      created_time |-> shelf[c].times[i] ]

\* what the aggregation of c returns when it runs alone
SoloResult(c) ==
    LET n   == Len(StampsThrough(c, SoloPages(c)))
        acc == [i \in 1..n |-> FetchedItem(c, i)]
        Keep(x) == Between(x.created_time)
    IN  SelectSeq(acc, Keep)

OwnItems(c) ==
    \A k \in 1..Len(agg[c].completed_items) :
        agg[c].completed_items[k].item.id[1] = c

\* C18: in every interleaving of the two subtasks of a screen request,
\* each accumulator holds items of its own category only, each result is
\* the one the aggregation returns when it runs alone on the same
\* upstream, and so the merged response depends on the upstream alone.
C18_SubtasksIndependent ==
    req.kind = "screen" =>
        /\ \A c \in {"movie", "tv"} :
              /\ OwnItems(c)
              /\ agg[c].pc = "returned" => agg[c].ret.data = SoloResult(c)
        /\ response.status = 200 =>
              response.data = SortedDesc(SoloResult("movie") \o SoloResult("tv"))

\* C18 witness: both subtasks have accumulated page 1 and have page 2 in
\* flight at the same time
C18_Witness ==
    /\ req.kind = "screen"
    /\ \A c \in {"movie", "tv"} :
          /\ agg[c].pc = "fetchN"
          /\ agg[c].completed_items # <<>>
          /\ SoloPages(c) = 2
          /\ SoloResult(c) # <<>>

\* page n of c was answered with data
Answered(c, n) == n \in 1..Len(replies[c]) /\ replies[c][n] = "data"

\* C19 as stated: the stop condition is checked after each fetched page,
\* and when page N, first or later, comes back with empty data, page N+1
\* is never requested.
C19_AsStated ==
    \A c \in Categories :
        \A n \in 1..Len(replies[c]) :
            (Answered(c, n) /\ PageBody(c, n).data = <<>>) => Len(calls[c]) <= n

\* C19 witness: page 2 came back with empty data and page 3 was requested
C19_Witness ==
    \E c \in Categories :
        /\ Answered(c, 2)
        /\ PageBody(c, 2).data = <<>>
        /\ calls[c] = <<1, 2, 3>>

\* C20 as stated: after each fetched page, first or later, no further page
\* is requested once the reported count equals the number of items
\* accumulated so far.
C20_AsStated ==
    \A c \in Categories :
        \A n \in 1..Len(replies[c]) :
            (Answered(c, n) /\ shelf[c].count = Len(StampsThrough(c, n)))
                => Len(calls[c]) <= n

\* C20 witness: after page 2 the accumulator held the two items upstream
\* reports as its count, and page 3 was requested
C20_Witness ==
    \E c \in Categories :
        /\ Answered(c, 2)
        /\ shelf[c].count = 2
        /\ Len(agg[c].completed_items) >= 2
        /\ Len(StampsThrough(c, 2)) = 2
        /\ calls[c] = <<1, 2, 3>>

\* the created_time of the last item of page n of c, a page with items
LastStamp(c, n) ==
    LET data == PageBody(c, n).data IN data[Len(data)].created_time

\* a stop condition other than the date test holds after page n
OtherStop(c, n) ==
    IF n = 1
    THEN shelf[c].count = Len(PageBody(c, 1).data) \/ shelf[c].pages = 1
    ELSE n = shelf[c].pages

\* C21: the date test is strict and reads the last item of the page just
\* fetched: after a page whose last item is older than the window start no
\* further page is requested, and after a page whose last item is exactly
\* at the window start, with no other stop condition, the call goes on.
C21_StrictDateTest ==
    \A c \in Categories :
        \A n \in 1..Len(replies[c]) :
            (Answered(c, n) /\ PageBody(c, n).data # <<>>) =>
                /\ StrLess(LastStamp(c, n), WinStart) => Len(calls[c]) <= n
                /\ ( /\ LastStamp(c, n) = WinStart
                     /\ ~OtherStop(c, n)
                     /\ Len(calls[c]) = n ) => agg[c].pc = "loop"

\* C21 witness: page 2 ended with an item exactly at the window start and
\* page 3 was requested; page 3 ended with an older item and the call
\* returned
C21_Witness ==
    \E c \in Categories :
        /\ calls[c] = <<1, 2, 3>>
        /\ agg[c].pc = "returned"
        /\ PageBody(c, 2).data # <<>>
        /\ LastStamp(c, 2) = WinStart
        /\ PageBody(c, 3).data # <<>>
        /\ StrLess(LastStamp(c, 3), WinStart)
        /\ shelf[c].pages = 0

\* the place of item x in the sequence s
IndexIn(s, x) == CHOOSE k \in 1..Len(s) : s[k] = x

\* the list handed to sorted(): the movie result, then the TV result
Concatenation == agg["movie"].ret.data \o agg["tv"].ret.data

Tie(i, j) ==
    /\ i < j
    /\ response.data[i].created_time = response.data[j].created_time

\* C22: items of the screen response with equal created_time stand in the
\* order they had in the movie result followed by the TV result: upstream
\* order within a category, movie items before TV items.
C22_StableMerge ==
    (req.kind = "screen" /\ response.status = 200) =>
        \A i, j \in 1..Len(response.data) :
            Tie(i, j) =>
                /\ IndexIn(Concatenation, response.data[i])
                     < IndexIn(Concatenation, response.data[j])
                /\ response.data[i].item.id[1] = "tv"
                     => response.data[j].item.id[1] = "tv"
                /\ response.data[i].item.id[1] = response.data[j].item.id[1]
                     => response.data[i].item.id[2] < response.data[j].item.id[2]

\* C22 witness: a response of four items of one created_time, two movies
\* and two TV items
C22_Witness ==
    /\ req.kind = "screen"
    /\ response.status = 200
    /\ Len(response.data) = 4
    /\ \A i, j \in 1..4 : i < j => Tie(i, j)
    /\ response.data[2].item.id[1] = "movie"
    /\ response.data[3].item.id[1] = "tv"

\* the concatenation of the pages 1..n of c as fetched, in page order
FetchedThrough(c, n) ==
    [i \in 1..Len(StampsThrough(c, n)) |-> FetchedItem(c, i)]

\* data picks items of s at strictly increasing places
SubsequenceOf(data, s) ==
    /\ \A k \in 1..Len(data) :
          Position(data, k) \in 1..Len(s) /\ data[k] = s[Position(data, k)]
    /\ \A k \in 1..(Len(data) - 1) : Position(data, k) < Position(data, k + 1)

\* C23: the data a call returns is a subsequence of the concatenation of
\* the pages it fetched, in page order: no item moved, none twice.
C23_UpstreamOrderKept ==
    \A c \in Categories :
        agg[c].pc = "returned" =>
            /\ agg[c].completed_items = FetchedThrough(c, Len(calls[c]))
            /\ SubsequenceOf(agg[c].ret.data, FetchedThrough(c, Len(calls[c])))

\* C23 witness: three pages fetched, the item of page 2 filtered out, the
\* items of pages 1 and 3 returned in that order although the later one
\* is the newer
C23_Witness ==
    \E c \in Categories :
        /\ agg[c].pc = "returned"
        /\ calls[c] = <<1, 2, 3>>
        /\ Len(agg[c].ret.data) = 2
        /\ Position(agg[c].ret.data, 1) = 1
        /\ Position(agg[c].ret.data, 2) = 3
        /\ StrLess(agg[c].ret.data[1].created_time, agg[c].ret.data[2].created_time)

MaxOf(a, b) == IF a > b THEN a ELSE b

\* C24 as stated: one call of get_completed_items_this_year makes at most
\* max(1, P) upstream fetches, P being the pages value page 1 reports, for
\* every upstream content.
C24_AsStated ==
    \A c \in Categories :
        Answered(c, 1) => Len(calls[c]) <= MaxOf(1, shelf[c].pages)

\* C24 witness: page 1 reported pages = 0, and after MaxFetch pages, the
\* later ones empty, the loop has still not stopped
C24_Witness ==
    \E c \in Categories :
        /\ shelf[c].pages = 0
        /\ Len(calls[c]) = MaxFetch
        /\ Len(replies[c]) = MaxFetch
        /\ PageBody(c, MaxFetch).data = <<>>
        /\ agg[c].pc = "loop"

\* every shelf reports its real page count and its real item count
ConsistentUpstream == \A c \in Categories : HonestShelf(c)

\* C25: when every fetch is answered and the upstream reports its real
\* page count and item count, a single-category request and a screen
\* request are eventually answered, under fair scheduling of the handler
\* and of the two subtasks.
C25_EventuallyResponds ==
    ConsistentUpstream ~> (main.pc = "done" /\ response # NoResponse)

\* C25 witness: a screen request over two consistent shelves of two pages
\* each has been answered with four items
C25_Witness ==
    /\ req.kind = "screen"
    /\ ConsistentUpstream
    /\ calls["movie"] = <<1, 2>>
    /\ calls["tv"] = <<1, 2>>
    /\ main.pc = "done"
    /\ Len(response.data) = 4

\* C26: the accumulator is non-empty whenever its last item is read: the
\* test after page 1 reads it only behind "not completed_items", and the
\* loop is entered and re-entered with a non-empty accumulator only, also
\* after empty later pages; a call fails only on a reply without data.
C26_LastItemExists ==
    \A c \in Categories :
        /\ agg[c].pc \in {"loop", "fetchN"} => agg[c].completed_items # <<>>
        /\ (agg[c].pc = "returned" /\ agg[c].completed_items = <<>>)
              => calls[c] = <<1>>
        /\ agg[c].pc = "raised" => replies[c][Len(replies[c])] = "error"

\* C26 witness: page 2 came back empty, the loop test read the last item
\* of page 1 and the call goes on
C26_Witness ==
    \E c \in Categories :
        /\ calls[c] = <<1, 2>>
        /\ Answered(c, 2)
        /\ PageBody(c, 2).data = <<>>
        /\ agg[c].pc = "loop"
        /\ Len(agg[c].completed_items) = Len(PageBody(c, 1).data)

NoFetch == \A c \in Categories : calls[c] = <<>> /\ replies[c] = <<>>

\* C27: a request rejected for its category makes no upstream fetch: none
\* before the rejection, none after it.
C27_RejectedWithoutFetch ==
    /\ \A c \in Categories : agg[c].pc = "rejected" => NoFetch
    /\ response.status = 400 => NoFetch
    /\ (req.kind = "single"
          /\ req.category \notin {"book", "music", "game", "movie", "tv"}) => NoFetch

\* C27 witness: a request for "podcast" with a year was rejected with 400
C27_Witness ==
    /\ req.category = "podcast"
    /\ req.year = StrArg(Digits(ThisYear))
    /\ agg["podcast"].pc = "rejected"
    /\ main.pc = "done"
    /\ response.status = 400
    /\ NoFetch

\* the year a window bound names: the bound without its 16 characters of
\* month, day and time
YearOf(bound) == SubSeq(bound, 1, Len(bound) - 16)

\* the call of c has computed both bounds of its window
HasWindow(c) == agg[c].pc \in {"fetch1", "loop", "fetchN", "returned", "raised"}

\* C28 as stated: within one request start and end name the same year,
\* and the movie and TV subtasks of a screen request use the same window,
\* also when the year is absent and the clock advances between the reads.
C28_AsStated ==
    /\ \A c \in Categories :
          HasWindow(c) => YearOf(agg[c].start) = YearOf(agg[c].end)
    /\ (HasWindow("movie") /\ HasWindow("tv")) =>
          /\ agg["movie"].start = agg["tv"].start
          /\ agg["movie"].end = agg["tv"].end

\* C28 witness: a request without a year was answered from a window that
\* starts in ThisYear and ends in the year after
C28_Witness ==
    /\ req.kind = "single"
    /\ req.year = IntArg(0)
    /\ main.pc = "done"
    /\ response.status = 200
    /\ YearOf(agg["book"].start) = Digits(ThisYear)
    /\ YearOf(agg["book"].end) = Digits(ThisYear + 1)

====
